---- MODULE Spec2Model ----
(***************************************************************************)
(* A model of ScrapCord's gateway client: the websocket read loop          *)
(* (gateway.py, DiscordWebsocket.handle_events), the heartbeat thread      *)
(* (gateway.py, HeartbeatHandler._handler), the entity cache (state.py,    *)
(* State; guild.py, Guild; member.py; role.py; user.py) and the listener   *)
(* table and dispatcher (core.py, Client).                                 *)
(*                                                                         *)
(* Python values are modelled as follows.  A JSON object is a record whose *)
(* DOMAIN is the set of keys present, a JSON list is a sequence.  A dict   *)
(* keyed by snowflake whose order is never observed (State.users,          *)
(* State.guilds, Guild._members) is a function on the set of its keys; a   *)
(* dict whose iteration order is observed (Guild._roles, read by           *)
(* Guild.roles) is the sequence of its values in insertion order.  An      *)
(* Optional[int] is an integer with None written NoneInt, an Optional[str] *)
(* is a string with None written NoneStr.  An operation that can raise     *)
(* returns a record with a field exc: "" when it returned normally, the    *)
(* exception's class name when it raised.                                  *)
(***************************************************************************)
EXTENDS Integers, Sequences, FiniteSets, TLC

\* ------------------------------------------------------------------ bounds
MaxSeq == 2          \* dispatch frames carry s in 1..MaxSeq
MaxSent == 3         \* frames kept in the outbound log
MaxTasks == 2        \* tasks created and not yet run
MaxListeners == 2    \* listeners registered under one event

\* ----------------------------------------------------------- input domains
GuildIds == {1, 2}
UserIds == {1, 2}
\* the id of a role that is not the default role of any guild
ExtraRoleId == Cardinality(GuildIds) + 1
Names == {"a", "b"}
Positions == {0, 1}

NoneInt == -1
NoneStr == "None"

\* ------------------------------------------------------- Python primitives
Has(d, k) == k \in DOMAIN d

\* dict[k] = v on a dict modelled as a function
Put(m, k, v) == (k :> v) @@ m

\* dict.pop(k, None) on a dict modelled as a function: the remaining dict
Pop(m, k) == [x \in (DOMAIN m) \ {k} |-> m[x]]

EmptyDict == [x \in {} |-> 0]

\* position of key id in an insertion-ordered dict, 0 when absent
IndexOf(seq, id) ==
    IF \E i \in 1..Len(seq) : seq[i].id = id
    THEN CHOOSE i \in 1..Len(seq) : seq[i].id = id
    ELSE 0

\* dict[k] = v on an insertion-ordered dict: an existing key keeps its place
OrdPut(seq, v) ==
    IF IndexOf(seq, v.id) = 0 THEN Append(seq, v)
    ELSE [seq EXCEPT ![IndexOf(seq, v.id)] = v]

\* dict.pop(k, None) on an insertion-ordered dict: the remaining dict
OrdPop(seq, id) ==
    IF IndexOf(seq, id) = 0 THEN seq
    ELSE [i \in 1..(Len(seq) - 1) |->
            IF i < IndexOf(seq, id) THEN seq[i] ELSE seq[i + 1]]

\* utils._get_snowflake(data, key): int(data[key]) or None
GetSnowflake(data, key) == IF Has(data, key) THEN data[key] ELSE NoneInt

\* ------------------------------------------------------------ entity types
\* BaseUser._from_data raises KeyError unless these keys are present
UserRaises(data) == ~({"username", "id", "discriminator"} \subseteq DOMAIN data)

UserFromData(data) ==
    [id |-> data.id, username |-> data.username,
     discriminator |-> data.discriminator]

\* Member._from_data: self.user = User(data['user'])
MemberRaises(data) == ~Has(data, "user") \/ UserRaises(data.user)

MemberFromData(data) == [user |-> UserFromData(data.user)]

\* Role._from_data raises KeyError unless id, name, position are present
RoleRaises(data) == ~({"id", "name", "position"} \subseteq DOMAIN data)

RoleFromData(data) ==
    [id |-> data.id, name |-> data.name, position |-> data.position]

\* State.add_user
AddUser(users, data) == Put(users, data.id, UserFromData(data))

\* a variant of Guild._add_member that caches the member and never the
\* account
AddMemberWithoutUser(mu, data) ==
    LET member == MemberFromData(data)
    IN  [members |-> Put(mu.members, member.user.id, member),
         users   |-> mu.users]

\* a variant of Guild._add_member that caches the account of the payload
\* also when an account with that id is cached
AddMemberReplacingUser(mu, data) ==
    LET member == MemberFromData(data)
    IN  [members |-> Put(mu.members, member.user.id, member),
         users   |-> AddUser(mu.users, data.user)]

\* Guild._add_member applied to the pair (guild._members, state.users)
AddMember(mu, data) ==
    LET member == MemberFromData(data)
    IN  [members |-> Put(mu.members, member.user.id, member),
         users   |-> IF member.user.id \in DOMAIN mu.users
                     THEN mu.users
                     ELSE AddUser(mu.users, data.user)]

\* Guild._update_members: a left-to-right loop of _add_member
RECURSIVE UpdateMembers(_, _)
UpdateMembers(mu, list) ==
    IF list = <<>> THEN mu
    ELSE UpdateMembers(AddMember(mu, Head(list)), Tail(list))

\* Guild._add_role applied to guild._roles
AddRole(roles, data) == OrdPut(roles, RoleFromData(data))

\* Guild._update_roles
RECURSIVE UpdateRoles(_, _)
UpdateRoles(roles, list) ==
    IF list = <<>> THEN roles
    ELSE UpdateRoles(AddRole(roles, Head(list)), Tail(list))

GetList(data, key) == IF Has(data, key) THEN data[key] ELSE <<>>

\* Guild._from_data: every field is overwritten, the nested mappings are
\* reset to {} and refilled from the payload's lists
GuildFromData(users, data) ==
    LET mu == UpdateMembers([members |-> EmptyDict, users |-> users],
                            GetList(data, "members"))
    IN  [guild |-> [id |-> data.id,
                    name |-> data.name,
                    unavailable |-> IF Has(data, "unavailable")
                                    THEN data.unavailable ELSE FALSE,
                    members |-> mu.members,
                    roles |-> UpdateRoles(<<>>, GetList(data, "roles"))],
         users |-> mu.users]

\* Guild.get_role: whether the role is cached, and the cached role
HasRole(guild, id) == IndexOf(guild.roles, id) # 0
GetRole(guild, id) == guild.roles[IndexOf(guild.roles, id)]

\* Guild.roles: list(self._roles.values()), then roles.remove(default_role)
\* and roles.append(default_role).  list.remove compares each element with
\* the argument, by identity first and then with ==; DiscordModel.__eq__
\* (abc.py) evaluates isinstance(other, self), which raises TypeError for
\* any instance.  So the removal succeeds only when the default role is the
\* first value of the dict; on an empty list (default_role is None) the
\* removal raises ValueError.
GuildRoles(guild) ==
    IF guild.roles = <<>> THEN [exc |-> "ValueError", value |-> <<>>]
    ELSE IF IndexOf(guild.roles, guild.id) = 1
         THEN [exc |-> "",
               value |-> Append(Tail(guild.roles), Head(guild.roles))]
         ELSE [exc |-> "TypeError", value |-> <<>>]

\* ------------------------------------------------------- notifications
\* What self.dispatch(name, *args) is called with.  A guild argument is
\* recorded by its scalar fields, a member, role or user argument in full,
\* None as NoneArg.
NoneArg == [none |-> TRUE]

GuildArg(guild) ==
    [id |-> guild.id, name |-> guild.name, unavailable |-> guild.unavailable]

Notify(name, args) == [name |-> name, args |-> args]

\* the result of a handler: the store after it, the notifications it
\* dispatched, the exception it raised
Result(user, users, guilds, out, exc) ==
    [user |-> user, users |-> users, guilds |-> guilds, out |-> out,
     exc |-> exc]

Return(st, out) == Result(st.user, st.users, st.guilds, out, "")
Raise(st, exc) == Result(st.user, st.users, st.guilds, <<>>, exc)

SetGuild(st, guild) == Put(st.guilds, guild.id, guild)

\* ------------------------------------------------------- event handlers
\* State.handle_user_update
HandleUserUpdate(st, data) ==
    IF ~Has(data, "id") THEN Raise(st, "KeyError")
    ELSE IF data.id \notin DOMAIN st.users THEN Return(st, <<>>)
    ELSE IF UserRaises(data) THEN Raise(st, "KeyError")
    ELSE Result(st.user, Put(st.users, data.id, UserFromData(data)), st.guilds,
                <<Notify("user_update",
                         <<st.users[data.id], UserFromData(data)>>)>>, "")

\* a variant of State.handle_guild_create that, on a create marked
\* unavailable, drops the guild from the cache
HandleGuildCreateDroppingOnOutage(st, data) ==
    IF Has(data, "unavailable") /\ data.unavailable
    THEN Result(st.user, st.users, Pop(st.guilds, data.id), <<>>, "")
    ELSE LET r == GuildFromData(st.users, data)
         IN  Result(st.user, r.users, SetGuild(st, r.guild),
                    (IF Has(data, "unavailable") /\ ~data.unavailable
                     THEN <<Notify("guild_available", <<GuildArg(r.guild)>>)>>
                     ELSE <<>>)
                    \o <<Notify("guild_join", <<GuildArg(r.guild)>>)>>, "")

\* a variant of State.handle_guild_create that, for a guild already cached,
\* keeps the cached roles and adds the payload's roles after them
HandleGuildCreateMerging(st, data) ==
    IF Has(data, "unavailable") /\ data.unavailable THEN Return(st, <<>>)
    ELSE LET r == GuildFromData(st.users, data)
             g == IF data.id \in DOMAIN st.guilds
                  THEN [r.guild EXCEPT
                          !.roles = st.guilds[data.id].roles \o r.guild.roles]
                  ELSE r.guild
         IN  Result(st.user, r.users, SetGuild(st, g),
                    (IF Has(data, "unavailable") /\ ~data.unavailable
                     THEN <<Notify("guild_available", <<GuildArg(g)>>)>>
                     ELSE <<>>)
                    \o <<Notify("guild_join", <<GuildArg(g)>>)>>, "")

\* State.handle_guild_create
HandleGuildCreate(st, data) ==
    IF Has(data, "unavailable") /\ data.unavailable THEN Return(st, <<>>)
    ELSE LET r == GuildFromData(st.users, data)
         IN  Result(st.user, r.users, SetGuild(st, r.guild),
                    (IF Has(data, "unavailable") /\ ~data.unavailable
                     THEN <<Notify("guild_available", <<GuildArg(r.guild)>>)>>
                     ELSE <<>>)
                    \o <<Notify("guild_join", <<GuildArg(r.guild)>>)>>, "")

\* a variant of State.handle_guild_update that keeps the guild itself as
\* "before" instead of a copy of it
HandleGuildUpdateWithoutCopy(st, data) ==
    IF data.id \notin DOMAIN st.guilds THEN Return(st, <<>>)
    ELSE LET r == GuildFromData(st.users, data)
         IN  Result(st.user, r.users, SetGuild(st, r.guild),
                    <<Notify("guild_update",
                             <<GuildArg(r.guild), GuildArg(r.guild)>>)>>, "")

\* State.handle_guild_update: before = copy.copy(guild) is a second object
\* with the attribute values of the guild; Guild._from_data rebinds the
\* attributes of the guild and leaves those of the copy as they were
HandleGuildUpdate(st, data) ==
    IF data.id \notin DOMAIN st.guilds THEN Return(st, <<>>)
    ELSE LET r == GuildFromData(st.users, data)
         IN  Result(st.user, r.users, SetGuild(st, r.guild),
                    <<Notify("guild_update",
                             <<GuildArg(st.guilds[data.id]),
                               GuildArg(r.guild)>>)>>, "")

\* a variant of State.handle_guild_delete that keeps the guild cached when
\* the delete is due to an outage
HandleGuildDeleteKeepingOnOutage(st, data) ==
    IF Has(data, "unavailable") /\ data.unavailable THEN Return(st, <<>>)
    ELSE Result(st.user, st.users, Pop(st.guilds, data.id),
                <<Notify("guild_leave",
                         <<IF data.id \in DOMAIN st.guilds
                           THEN GuildArg(st.guilds[data.id])
                           ELSE NoneArg>>)>>, "")

\* State.handle_guild_delete
HandleGuildDelete(st, data) ==
    LET removed == IF data.id \in DOMAIN st.guilds
                   THEN GuildArg(st.guilds[data.id]) ELSE NoneArg
    IN  Result(st.user, st.users, Pop(st.guilds, data.id),
               IF Has(data, "unavailable") /\ data.unavailable THEN <<>>
               ELSE <<Notify("guild_leave", <<removed>>)>>, "")

\* a variant of State.handle_guild_member_add that caches the account of
\* the payload before it resolves the guild
HandleGuildMemberAddCachingUser(st, data) ==
    LET gid == GetSnowflake(data, "guild_id")
    IN  IF MemberRaises(data) THEN Raise(st, "KeyError")
        ELSE IF gid \notin DOMAIN st.guilds
        THEN Result(st.user,
                    IF data.user.id \in DOMAIN st.users THEN st.users
                    ELSE AddUser(st.users, data.user),
                    st.guilds, <<>>, "")
        ELSE LET g == st.guilds[gid]
                 mu == AddMember([members |-> g.members, users |-> st.users],
                                 data)
             IN  Result(st.user, mu.users,
                        SetGuild(st, [g EXCEPT !.members = mu.members]),
                        <<Notify("member_join",
                                 <<MemberFromData(data)>>)>>, "")

\* State.handle_guild_member_add
HandleGuildMemberAdd(st, data) ==
    LET gid == GetSnowflake(data, "guild_id")
    IN  IF gid \notin DOMAIN st.guilds THEN Return(st, <<>>)
        ELSE IF MemberRaises(data) THEN Raise(st, "KeyError")
        ELSE LET g == st.guilds[gid]
                 mu == AddMember([members |-> g.members, users |-> st.users],
                                 data)
             IN  Result(st.user, mu.users,
                        SetGuild(st, [g EXCEPT !.members = mu.members]),
                        <<Notify("member_join",
                                 <<MemberFromData(data)>>)>>, "")

\* a variant of State.handle_guild_member_remove that builds the User from
\* data['user']
HandleGuildMemberRemoveByUserKey(st, data) ==
    LET gid == GetSnowflake(data, "guild_id")
    IN  IF gid \notin DOMAIN st.guilds THEN Return(st, <<>>)
        ELSE IF MemberRaises(data) THEN Raise(st, "KeyError")
        ELSE LET g == st.guilds[gid]
                 u == UserFromData(data.user)
             IN  Result(st.user, st.users,
                        SetGuild(st, [g EXCEPT
                                        !.members = Pop(g.members, u.id)]),
                        <<Notify("member_remove", <<u>>)>>, "")

\* State.handle_guild_member_remove: the User is built from the event
\* payload itself (User(data, ...)), not from data['user']
HandleGuildMemberRemove(st, data) ==
    LET gid == GetSnowflake(data, "guild_id")
    IN  IF gid \notin DOMAIN st.guilds THEN Return(st, <<>>)
        ELSE IF UserRaises(data) THEN Raise(st, "KeyError")
        ELSE LET g == st.guilds[gid]
                 user == UserFromData(data)
             IN  Result(st.user, st.users,
                        SetGuild(st, [g EXCEPT
                                        !.members = Pop(g.members, user.id)]),
                        <<Notify("member_remove", <<user>>)>>, "")

\* State.handle_guild_member_update
HandleGuildMemberUpdate(st, data) ==
    LET gid == GetSnowflake(data, "guild_id")
    IN  IF gid \notin DOMAIN st.guilds THEN Return(st, <<>>)
        ELSE IF MemberRaises(data) THEN Raise(st, "KeyError")
        ELSE LET g == st.guilds[gid]
                 before == IF data.user.id \in DOMAIN g.members
                           THEN g.members[data.user.id] ELSE NoneArg
                 mu == AddMember([members |-> g.members, users |-> st.users],
                                 data)
             IN  Result(st.user, mu.users,
                        SetGuild(st, [g EXCEPT !.members = mu.members]),
                        <<Notify("member_update",
                                 <<before, MemberFromData(data)>>)>>, "")

\* State.handle_guild_role_create
HandleGuildRoleCreate(st, data) ==
    LET gid == GetSnowflake(data, "guild_id")
    IN  IF gid \notin DOMAIN st.guilds THEN Return(st, <<>>)
        ELSE IF ~Has(data, "role") \/ RoleRaises(data.role)
             THEN Raise(st, "KeyError")
        ELSE LET g == st.guilds[gid]
             IN  Result(st.user, st.users,
                        SetGuild(st, [g EXCEPT
                                        !.roles = AddRole(g.roles, data.role)]),
                        <<Notify("role_create",
                                 <<RoleFromData(data.role)>>)>>, "")

\* a variant of State.handle_guild_role_delete that dispatches role_delete
\* with whatever Guild._remove_role returned
HandleGuildRoleDeleteNotifyingAlways(st, data) ==
    LET gid == GetSnowflake(data, "guild_id")
        rid == GetSnowflake(data, "role_id")
    IN  IF gid \notin DOMAIN st.guilds THEN Return(st, <<>>)
        ELSE LET g == st.guilds[gid]
             IN  Result(st.user, st.users,
                        SetGuild(st, [g EXCEPT
                                        !.roles = OrdPop(g.roles, rid)]),
                        <<Notify("role_delete",
                                 <<IF HasRole(g, rid) THEN GetRole(g, rid)
                                   ELSE NoneArg>>)>>, "")

\* State.handle_guild_role_delete
HandleGuildRoleDelete(st, data) ==
    LET gid == GetSnowflake(data, "guild_id")
        rid == GetSnowflake(data, "role_id")
    IN  IF gid \notin DOMAIN st.guilds THEN Return(st, <<>>)
        ELSE LET g == st.guilds[gid]
             IN  IF ~HasRole(g, rid) THEN Return(st, <<>>)
                 ELSE Result(st.user, st.users,
                             SetGuild(st, [g EXCEPT
                                             !.roles = OrdPop(g.roles, rid)]),
                             <<Notify("role_delete", <<GetRole(g, rid)>>)>>,
                             "")

\* State.handle_guild_role_update: for a role that is not cached the code
\* calls guild._add_role(role) with role = None, and Role(None, ...) raises
\* TypeError on None['id']
HandleGuildRoleUpdate(st, data) ==
    LET gid == GetSnowflake(data, "guild_id")
    IN  IF gid \notin DOMAIN st.guilds THEN Return(st, <<>>)
        ELSE IF ~Has(data, "role") \/ ~Has(data.role, "id")
             THEN Raise(st, "KeyError")
        ELSE LET g == st.guilds[gid]
             IN  IF ~HasRole(g, data.role.id) THEN Raise(st, "TypeError")
                 ELSE IF RoleRaises(data.role) THEN Raise(st, "KeyError")
                 ELSE Result(st.user, st.users,
                             SetGuild(st, [g EXCEPT
                                             !.roles = AddRole(g.roles,
                                                               data.role)]),
                             <<Notify("role_update",
                                      <<GetRole(g, data.role.id),
                                        RoleFromData(data.role)>>)>>, "")

\* a variant of State.handle_ready that starts from an empty cache
HandleReadyClearing(st, data) ==
    IF ~Has(data, "user") \/ UserRaises(data.user) THEN Raise(st, "KeyError")
    ELSE Result(UserFromData(data.user), AddUser(EmptyDict, data.user),
                EmptyDict, <<Notify("ready", <<>>)>>, "")

\* State.handle_ready
HandleReady(st, data) ==
    IF ~Has(data, "user") \/ UserRaises(data.user) THEN Raise(st, "KeyError")
    ELSE Result(UserFromData(data.user), AddUser(st.users, data.user),
                st.guilds, <<Notify("ready", <<>>)>>, "")

\* the event names t for which State has a method handle_<t.lower()>
HandledEvents ==
    {"READY", "USER_UPDATE", "GUILD_CREATE", "GUILD_UPDATE", "GUILD_DELETE",
     "GUILD_MEMBER_ADD", "GUILD_MEMBER_REMOVE", "GUILD_MEMBER_UPDATE",
     "GUILD_ROLE_CREATE", "GUILD_ROLE_DELETE", "GUILD_ROLE_UPDATE"}

\* a variant of State.process_event that looks the handler up without a
\* default: getattr(self, 'handle_' + name.lower())
ProcessEventWithoutDefault(st, name, data) ==
    IF name \notin HandledEvents THEN Raise(st, "AttributeError")
    ELSE CASE name = "READY" -> HandleReady(st, data)
           [] name = "USER_UPDATE" -> HandleUserUpdate(st, data)
           [] name = "GUILD_CREATE" -> HandleGuildCreate(st, data)
           [] name = "GUILD_UPDATE" -> HandleGuildUpdate(st, data)
           [] name = "GUILD_DELETE" -> HandleGuildDelete(st, data)
           [] name = "GUILD_MEMBER_ADD" -> HandleGuildMemberAdd(st, data)
           [] name = "GUILD_MEMBER_REMOVE" -> HandleGuildMemberRemove(st, data)
           [] name = "GUILD_MEMBER_UPDATE" -> HandleGuildMemberUpdate(st, data)
           [] name = "GUILD_ROLE_CREATE" -> HandleGuildRoleCreate(st, data)
           [] name = "GUILD_ROLE_DELETE" -> HandleGuildRoleDelete(st, data)
           [] name = "GUILD_ROLE_UPDATE" -> HandleGuildRoleUpdate(st, data)

\* State.process_event: getattr(self, 'handle_' + name.lower(), None)
ProcessEvent(st, name, data) ==
    IF name \notin HandledEvents THEN Return(st, <<>>)
    ELSE CASE name = "READY" -> HandleReady(st, data)
           [] name = "USER_UPDATE" -> HandleUserUpdate(st, data)
           [] name = "GUILD_CREATE" -> HandleGuildCreate(st, data)
           [] name = "GUILD_UPDATE" -> HandleGuildUpdate(st, data)
           [] name = "GUILD_DELETE" -> HandleGuildDelete(st, data)
           [] name = "GUILD_MEMBER_ADD" -> HandleGuildMemberAdd(st, data)
           [] name = "GUILD_MEMBER_REMOVE" -> HandleGuildMemberRemove(st, data)
           [] name = "GUILD_MEMBER_UPDATE" -> HandleGuildMemberUpdate(st, data)
           [] name = "GUILD_ROLE_CREATE" -> HandleGuildRoleCreate(st, data)
           [] name = "GUILD_ROLE_DELETE" -> HandleGuildRoleDelete(st, data)
           [] name = "GUILD_ROLE_UPDATE" -> HandleGuildRoleUpdate(st, data)

\* ------------------------------------------------------------------ state
VARIABLES
    user,        \* State.user: the ClientUser, NoneArg before READY
    users,       \* State.users
    guilds,      \* State.guilds
    socket,      \* DiscordWebsocket.socket: "none", "open" or "closed"
    sequence,    \* DiscordWebsocket.sequence
    session_id,  \* DiscordWebsocket.session_id
    interval,    \* HeartbeatHandler.interval, in milliseconds
    rl_pc,       \* where the read loop (Client.connect) is
    hb_pc,       \* where the heartbeat thread (HeartbeatHandler._handler) is
    sent,        \* the frames written to the socket, oldest first
    elapsed,     \* a heartbeat interval has passed since the last heartbeat
    raised,      \* the exception Client.connect ended with, "" if none
    dispatched,  \* the State.dispatch calls made for the last frame
    last,        \* the last frame the read loop took from the socket
    repeat,      \* last has the same event name and payload as the frame before
    ref,         \* the reference fold of the guild events processed so far
    listeners,   \* Client.listeners: event name -> list of callbacks
    tasks,       \* the asyncio tasks created by _schedule_event, not yet run
    writers,     \* who is inside socket.send_str: "loop", "thread"
    acked,       \* a HeartbeatAck arrived since the last heartbeat was sent
    buffer,      \* DiscordWebsocket.buffer: the bytes kept for the inflator
    heard,       \* msg.get('s') of the last frame received that had one
    called       \* the call of add_listener or clear_listeners the program
                 \* made last and its outcome; NoCall once the client was
                 \* started, a frame dispatched or a task run after it

vars == <<user, users, guilds, socket, sequence, session_id, interval, rl_pc,
          hb_pc, sent, elapsed, raised, dispatched, last, repeat, ref,
          listeners, tasks, writers, acked, called, buffer, heard>>

\* the entity cache, and what only the heartbeat path touches
cache == <<user, users, guilds>>
hbvars == <<interval, hb_pc, sent, elapsed>>

\* what only the dispatcher and the listener API touch
lsvars == <<listeners, tasks, called>>

NoCall == [op |-> "none"]

store == [user |-> user, users |-> users, guilds |-> guilds]

NoFrame == [op |-> NoneInt, t |-> NoneStr, d |-> NoneArg, s |-> NoneInt]

Init ==
    /\ user = NoneArg
    /\ users = EmptyDict
    /\ guilds = EmptyDict
    /\ socket = "none"
    /\ sequence = NoneInt
    /\ session_id = NoneStr
    /\ interval = NoneInt
    /\ rl_pc = "init"
    /\ hb_pc = "unstarted"
    /\ sent = <<>>
    /\ elapsed = FALSE
    /\ raised = ""
    /\ dispatched = <<>>
    /\ last = NoFrame
    /\ repeat = FALSE
    /\ ref = EmptyDict
    /\ listeners = EmptyDict
    /\ tasks = <<>>
    /\ writers = {}
    /\ acked = FALSE
    /\ called = NoCall
    /\ buffer = <<>>
    /\ heard = NoneInt

\* ------------------------------------------------------------ the inputs
\* class OP
OP_DISPATCH == 0
OP_HEARTBEAT == 1
OP_IDENTIFY == 2
OP_RESUME == 6
OP_RECONNECT == 7
OP_INVALID_SESSION == 9
OP_HELLO == 10
OP_HEARTBEAT_ACK == 11

UserPayload(u, n) == [id |-> u, username |-> n, discriminator |-> "0001"]
UserPayloads(names) == {UserPayload(u, n) : u \in UserIds, n \in names}
MemberPayloads(names) == {[user |-> up] : up \in UserPayloads(names)}

\* the member lists of a guild payload: at most two members in ascending
\* order of user id, or the same user twice
MemberLists(names) ==
    {<<>>} \cup {<<m>> : m \in MemberPayloads(names)}
    \cup {p \in MemberPayloads(names) \X MemberPayloads(names) :
            p[1].user.id < p[2].user.id}
    \cup {<<m, m>> : m \in {[user |-> UserPayload(1, n)] : n \in names}}

\* the default role of guild g has id g
DefaultRolePayload(g) == [id |-> g, name |-> "@everyone", position |-> 0]
ExtraRolePayloads ==
    {[id |-> ExtraRoleId, name |-> "r", position |-> p] : p \in Positions}

\* the role lists of a guild payload: the gateway always lists the default
\* role, in no guaranteed place
RoleLists(g) ==
    {<<DefaultRolePayload(g)>>}
    \cup {<<DefaultRolePayload(g), r>> : r \in ExtraRolePayloads}
    \cup {<<r, DefaultRolePayload(g)>> : r \in ExtraRolePayloads}

\* the sequence number the gateway gives its next dispatch frame: one more
\* than the last, no more than MaxSeq
NextS == IF sequence = NoneInt THEN 1
         ELSE IF sequence < MaxSeq THEN sequence + 1 ELSE MaxSeq

DispatchFrame(t, d) == [op |-> OP_DISPATCH, t |-> t, d |-> d, s |-> NextS]

\* ------------------------------------------------------ reference fold
\* the net effect of one guild event on a mapping guild id -> fields:
\* an available create inserts or replaces, an update of a known guild
\* replaces, a delete removes
RefFields(d) == [id |-> d.id, name |-> d.name]

RefApply(r, f) ==
    IF f.t = "GUILD_CREATE" /\ ~(Has(f.d, "unavailable") /\ f.d.unavailable)
        THEN Put(r, f.d.id, RefFields(f.d))
    ELSE IF f.t = "GUILD_UPDATE" /\ f.d.id \in DOMAIN r
        THEN Put(r, f.d.id, RefFields(f.d))
    ELSE IF f.t = "GUILD_DELETE" THEN Pop(r, f.d.id)
    ELSE r

\* ------------------------------------------------------- the dispatcher
\* A name (a callback's __name__, the name given to add_listener, an event)
\* is the sequence of its parts, the prefix "on_" being a part of its own:
\* "on_ready" is <<"on_", "ready">>, and None or "" is <<>>.  A callback is
\* a record: its __name__, whether it is a coroutine function, the number
\* of its parameters (calling it with another number of arguments raises
\* TypeError) and what running its coroutine does (run: "" it finishes,
\* "Exception" it raises).
StartsWithOn(name) == name # <<>> /\ Head(name) = "on_"

\* a variant of Client.add_listener that puts the listener in the place of
\* the ones registered under the name before
AddListenerReplacing(ls, listener, name) ==
    LET n == IF name = <<>> THEN listener.name ELSE name
    IN  IF ~listener.coroutine THEN [listeners |-> ls, exc |-> "TypeError"]
        ELSE IF ~StartsWithOn(n) THEN [listeners |-> ls, exc |-> "TypeError"]
        ELSE [listeners |-> Put(ls, Tail(n), <<listener>>), exc |-> ""]

\* Client.add_listener: the listener table after it, the exception raised
AddListener(ls, listener, name) ==
    LET n == IF name = <<>> THEN listener.name ELSE name
    IN  IF ~listener.coroutine THEN [listeners |-> ls, exc |-> "TypeError"]
        ELSE IF ~StartsWithOn(n) THEN [listeners |-> ls, exc |-> "TypeError"]
        ELSE [listeners |->
                Put(ls, Tail(n),
                    IF Has(ls, Tail(n)) THEN Append(ls[Tail(n)], listener)
                    ELSE <<listener>>),
              exc |-> ""]

\* a variant of Client.clear_listeners that looks the event up as given
ClearListenersAsGiven(ls, event) == Pop(ls, event)

\* Client.clear_listeners: the listener table after it
ClearListeners(ls, event) ==
    Pop(ls, IF StartsWithOn(event) THEN Tail(event) ELSE event)

\* the loop of Client.dispatch over the listeners of one event, from the
\* left: _schedule_event calls the listener, which may raise, and creates a
\* task for the coroutine it returned
RECURSIVE ScheduleEvents(_, _, _)
ScheduleEvents(list, args, acc) ==
    IF list = <<>> THEN [tasks |-> acc, exc |-> ""]
    ELSE IF Head(list).params # Len(args)
         THEN [tasks |-> acc, exc |-> "TypeError"]
    ELSE ScheduleEvents(Tail(list), args,
                        Append(acc, [coro |-> Head(list), args |-> args]))

\* Client.dispatch(event, *args): the tasks it creates, the exception that
\* leaves it
ClientDispatch(ls, n) ==
    ScheduleEvents(IF Has(ls, <<n.name>>) THEN ls[<<n.name>>] ELSE <<>>,
                   n.args, <<>>)

\* the dispatch calls of one handler, in order: an exception leaving one
\* of them leaves the handler, and the calls after it are not made
RECURSIVE DispatchAll(_, _, _, _)
DispatchAll(ls, out, acc, made) ==
    IF out = <<>> THEN [tasks |-> acc, made |-> made, exc |-> ""]
    ELSE LET r == ClientDispatch(ls, Head(out))
         IN  IF r.exc # ""
             THEN [tasks |-> acc \o r.tasks, made |-> made + 1,
                   exc |-> r.exc]
             ELSE DispatchAll(ls, Tail(out), acc \o r.tasks, made + 1)

\* ------------------------------------------------------------ the actions
\* DiscordWebsocket.start: open the socket and enter handle_events
Start ==
    /\ rl_pc = "init"
    /\ socket' = "open"
    /\ rl_pc' = "recv"
    /\ called' = NoCall
    /\ UNCHANGED <<cache, hbvars, sequence, session_id, raised, dispatched,
                   last, repeat, ref, buffer, heard, listeners, tasks, writers,
                   acked>>

\* one iteration of DiscordWebsocket.handle_events on a dispatch frame f:
\* store the sequence, store the session id of a READY, route the event;
\* the handler changes the cache and then calls Client.dispatch.
\* An exception of the handler or of a dispatch call leaves handle_events,
\* start and connect.
Dispatch(f) ==
    /\ rl_pc = "recv"
    /\ socket = "open"
    /\ "loop" \notin writers
    /\ LET r == ProcessEvent(store, f.t, f.d)
           noSid == f.t = "READY" /\ ~Has(f.d, "session_id")
           fan == DispatchAll(listeners, IF noSid THEN <<>> ELSE r.out,
                              <<>>, 0)
       IN  /\ sequence' = IF f.s # NoneInt /\ f.s # 0 THEN f.s ELSE sequence
           /\ session_id' = IF f.t = "READY" /\ ~noSid THEN f.d.session_id
                            ELSE session_id
           /\ user' = IF noSid THEN user ELSE r.user
           /\ users' = IF noSid THEN users ELSE r.users
           /\ guilds' = IF noSid THEN guilds ELSE r.guilds
           /\ dispatched' = IF noSid THEN <<>> ELSE SubSeq(r.out, 1, fan.made)
           /\ tasks' = tasks \o fan.tasks
           /\ Len(tasks') <= MaxTasks
           /\ raised' = IF noSid THEN "KeyError"
                        ELSE IF r.exc # "" THEN r.exc ELSE fan.exc
           /\ rl_pc' = IF raised' = "" THEN "recv" ELSE "raised"
    /\ last' = f
    /\ repeat' = (last.t = f.t /\ last.d = f.d)
    /\ ref' = RefApply(ref, f)
    /\ called' = NoCall
    /\ heard' = IF f.s # NoneInt THEN f.s ELSE heard
    /\ UNCHANGED <<socket, hbvars, listeners, writers, acked, buffer>>

\* with(d, b): the payload d with the key unavailable set to b
WithUnavailable(d, b) == [k \in DOMAIN d \cup {"unavailable"} |->
                            IF k = "unavailable" THEN b ELSE d[k]]

\* GUILD_CREATE payloads over the given names, member lists and role lists:
\* a guild object without the key unavailable (a join), one with
\* unavailable: false (a guild that is back), and the partial object
\* {id, unavailable: true} of an outage
GuildCreatePayloads(names, mlists, withExtraRoles) ==
    LET full == UNION {
            {[id |-> g, name |-> n, members |-> ml, roles |-> rl] :
                n \in names, ml \in mlists,
                rl \in IF withExtraRoles THEN RoleLists(g)
                       ELSE {<<DefaultRolePayload(g)>>}} : g \in GuildIds}
    IN  full \cup {WithUnavailable(d, FALSE) : d \in full}
             \cup {[id |-> g, unavailable |-> TRUE] : g \in GuildIds}

\* GUILD_UPDATE payloads: a guild object, which lists roles but no members
GuildUpdatePayloads(names, withExtraRoles) ==
    UNION {{[id |-> g, name |-> n, roles |-> rl] :
                n \in names,
                rl \in IF withExtraRoles THEN RoleLists(g)
                       ELSE {<<DefaultRolePayload(g)>>}} : g \in GuildIds}

\* GUILD_DELETE payloads: {id} when the client left, {id, unavailable: true}
\* on an outage
GuildDeletePayloads ==
    {[id |-> g] : g \in GuildIds}
    \cup {[id |-> g, unavailable |-> TRUE] : g \in GuildIds}

\* GUILD_MEMBER_ADD / _UPDATE / _REMOVE payloads: {guild_id, user: {...}}
GuildMemberPayloads(names) ==
    {[guild_id |-> g, user |-> up] :
        g \in GuildIds, up \in UserPayloads(names)}

ReadyPayload == [user |-> UserPayload(1, "a"), session_id |-> "s1"]

\* an event this version of the library has no handler for
UnknownEvent == "MESSAGE_CREATE"
UnknownPayload == [id |-> 1, content |-> "hi"]

\* ---- the events of the specification Spec: guilds and their members.
\* Guild names vary, every account has the same username, every guild has
\* its default role only
SpecUserNames == {"a"}

Ready == Dispatch(DispatchFrame("READY", ReadyPayload))

UserUpdate ==
    \E d \in UserPayloads(SpecUserNames) :
         Dispatch(DispatchFrame("USER_UPDATE", d))

GuildCreate ==
    \E d \in GuildCreatePayloads(Names, MemberLists(SpecUserNames),
                                 FALSE) :
        Dispatch(DispatchFrame("GUILD_CREATE", d))

GuildUpdate ==
    \E d \in GuildUpdatePayloads(Names, FALSE) :
        Dispatch(DispatchFrame("GUILD_UPDATE", d))

GuildDelete ==
    \E d \in GuildDeletePayloads : Dispatch(DispatchFrame("GUILD_DELETE", d))

GuildMemberAdd ==
    \E d \in GuildMemberPayloads(SpecUserNames) :
        Dispatch(DispatchFrame("GUILD_MEMBER_ADD", d))

GuildMemberUpdate ==
    \E d \in GuildMemberPayloads(SpecUserNames) :
        Dispatch(DispatchFrame("GUILD_MEMBER_UPDATE", d))

GuildMemberRemove ==
    \E d \in GuildMemberPayloads(SpecUserNames) :
        Dispatch(DispatchFrame("GUILD_MEMBER_REMOVE", d))

Unknown == Dispatch(DispatchFrame(UnknownEvent, UnknownPayload))

Next ==
    \/ Start
    \/ Ready
    \/ UserUpdate
    \/ GuildCreate
    \/ GuildUpdate
    \/ GuildDelete
    \/ GuildMemberAdd
    \/ GuildMemberUpdate
    \/ GuildMemberRemove
    \/ Unknown

Spec == Init /\ [][Next]_vars

\* ---- the events of the specification RoleSpec: guilds and their roles.
\* One guild name, no members, role lists in every order
RoleSpecNames == {"a"}
RoleSpecMemberLists == {<<>>}

\* GUILD_ROLE_CREATE / _UPDATE payloads: {guild_id, role: {...}}
GuildRolePayloads ==
    UNION {{[guild_id |-> g, role |-> r] :
                r \in {DefaultRolePayload(g)} \cup ExtraRolePayloads} :
           g \in GuildIds}

\* GUILD_ROLE_DELETE payloads: {guild_id, role_id}
GuildRoleDeletePayloads ==
    {[guild_id |-> g, role_id |-> r] :
        g \in GuildIds, r \in GuildIds \cup {ExtraRoleId}}

RoleGuildCreate ==
    \E d \in GuildCreatePayloads(RoleSpecNames, RoleSpecMemberLists, TRUE) :
        Dispatch(DispatchFrame("GUILD_CREATE", d))

RoleGuildUpdate ==
    \E d \in GuildUpdatePayloads(RoleSpecNames, TRUE) :
        Dispatch(DispatchFrame("GUILD_UPDATE", d))

GuildRoleCreate ==
    \E d \in {p \in GuildRolePayloads : p.role.id = ExtraRoleId} :
        Dispatch(DispatchFrame("GUILD_ROLE_CREATE", d))

\* a GUILD_ROLE_CREATE payload without the key role
GuildRoleCreateMalformed ==
    \E g \in GuildIds :
        Dispatch(DispatchFrame("GUILD_ROLE_CREATE", [guild_id |-> g]))

GuildRoleUpdate ==
    \E d \in GuildRolePayloads : Dispatch(DispatchFrame("GUILD_ROLE_UPDATE", d))

GuildRoleDelete ==
    \E d \in GuildRoleDeletePayloads :
        Dispatch(DispatchFrame("GUILD_ROLE_DELETE", d))

RoleNext ==
    \/ Start
    \/ RoleGuildCreate
    \/ RoleGuildUpdate
    \/ GuildDelete
    \/ GuildRoleCreate
    \/ GuildRoleCreateMalformed
    \/ GuildRoleUpdate
    \/ GuildRoleDelete

RoleSpec == Init /\ [][RoleNext]_vars

\* ---- the events of the specification StraySpec: member and role events
\* for two guilds of which only guild 1 is ever created, with any member
\* list and its default role
StrayGuildCreate ==
    \E d \in {p \in GuildCreatePayloads(RoleSpecNames,
                                        MemberLists(SpecUserNames), FALSE) :
                p.id = 1} :
        Dispatch(DispatchFrame("GUILD_CREATE", d))

StrayNext ==
    \/ Start
    \/ StrayGuildCreate
    \/ GuildDelete
    \/ GuildMemberAdd
    \/ GuildMemberUpdate
    \/ GuildMemberRemove
    \/ GuildRoleCreate
    \/ GuildRoleUpdate
    \/ GuildRoleDelete

StraySpec == Init /\ [][StrayNext]_vars

\* ---- the events of the specification MemberSpec: guilds created without
\* members, and member-add events whose accounts have either username
MemberGuildCreate ==
    \E d \in {p \in GuildCreatePayloads(RoleSpecNames, RoleSpecMemberLists,
                                        FALSE) : ~Has(p, "unavailable")} :
        Dispatch(DispatchFrame("GUILD_CREATE", d))

MemberAddAnyName ==
    \E d \in GuildMemberPayloads(Names) :
        Dispatch(DispatchFrame("GUILD_MEMBER_ADD", d))

MemberNext ==
    \/ Start
    \/ MemberGuildCreate
    \/ MemberAddAnyName

MemberSpec == Init /\ [][MemberNext]_vars

\* ------------------------------------------------------- the gateway
\* A frame of the outbound log carries, besides op and d, who wrote it
\* (by: "hello" the read loop answering Hello, "demand" the read loop
\* answering an inbound op 1, "timer" the heartbeat thread) and whether a
\* heartbeat interval had passed since the heartbeat before it (waited).
\* A heartbeat also carries whether a HeartbeatAck had arrived since the
\* heartbeat before it (acked).  The frame enters the log when its writer
\* enters socket.send_str.
HeartbeatFrame(by) ==
    [op |-> OP_HEARTBEAT, d |-> sequence, by |-> by, waited |-> elapsed,
     acked |-> acked]

\* DiscordWebsocket.identify: the payload it sends
IdentifyFrame ==
    [op |-> OP_IDENTIFY,
     d |-> [token |-> "token", intents |-> "intents",
            properties |-> "ScrapCord"],
     by |-> "hello", waited |-> elapsed]

\* Client.connect, after the nested connect has returned: the payload of the
\* Resume frame, built from the session id and sequence read before the
\* old socket was closed
ResumeFrame(sid, seq) ==
    [op |-> OP_RESUME,
     d |-> [token |-> "token", session_id |-> sid, seq |-> seq],
     by |-> "connect", waited |-> elapsed]

\* what socket.send_str does on a closed socket is the transport's choice:
\* the frame is dropped, or the call raises
SendOutcomes == IF socket = "open" THEN {"written"}
                ELSE {"dropped", "ConnectionResetError"}

ControlFrame(op, d) == [op |-> op, t |-> NoneStr, d |-> d, s |-> NoneInt]

HelloFrame == ControlFrame(OP_HELLO, [heartbeat_interval |-> 41250])

\* Hello is the first frame the gateway sends on a socket: every other
\* frame arrives after the OP.HELLO branch has set the heartbeat interval
HelloReceived == interval # NoneInt

\* the common head of an iteration of handle_events on a control frame:
\* the loop is waiting in receive_json on an open socket
Receive(f) ==
    /\ rl_pc = "recv"
    /\ socket = "open"
    /\ "loop" \notin writers
    /\ last' = f
    /\ repeat' = (last.op = f.op /\ last.t = f.t /\ last.d = f.d)
    /\ dispatched' = <<>>
    /\ UNCHANGED <<cache, session_id, ref, buffer, heard, socket, lsvars>>

\* a variant of the first part of OP.HELLO that sends the Identify frame
\* where the code sends the immediate heartbeat
RecvHelloIdentifying ==
    /\ Receive(HelloFrame)
    /\ Len(sent) < MaxSent
    /\ interval' = HelloFrame.d.heartbeat_interval
    /\ sent' = Append(sent, IdentifyFrame)
    /\ elapsed' = elapsed
    /\ writers' = writers \cup {"loop"}
    /\ rl_pc' = "hello_start"
    /\ UNCHANGED <<sequence, hb_pc, raised, acked>>

\* OP.HELLO, first part: set the interval, send the immediate heartbeat
RecvHello ==
    /\ Receive(HelloFrame)
    /\ Len(sent) < MaxSent
    /\ interval' = HelloFrame.d.heartbeat_interval
    /\ sent' = Append(sent, HeartbeatFrame("hello"))
    /\ elapsed' = FALSE
    /\ acked' = FALSE
    /\ writers' = writers \cup {"loop"}
    /\ rl_pc' = "hello_start"
    /\ UNCHANGED <<sequence, hb_pc, raised>>

\* OP.HELLO, second part: self.heartbeat.start().  Thread.start raises
\* RuntimeError on a thread that was started before
HelloStart ==
    /\ rl_pc = "hello_start"
    /\ "loop" \notin writers
    /\ IF hb_pc = "unstarted"
       THEN /\ hb_pc' = "check"
            /\ rl_pc' = "hello_identify"
            /\ raised' = raised
       ELSE /\ hb_pc' = hb_pc
            /\ rl_pc' = "raised"
            /\ raised' = "RuntimeError"
    /\ UNCHANGED <<cache, socket, sequence, session_id, interval, sent,
                   elapsed, dispatched, last, repeat, ref, buffer, heard,
                   lsvars, writers, acked>>

\* OP.HELLO, third part: await self.identify()
HelloIdentify ==
    /\ rl_pc = "hello_identify"
    /\ Len(sent) < MaxSent
    /\ \E o \in SendOutcomes :
        /\ sent' = IF o = "written" THEN Append(sent, IdentifyFrame) ELSE sent
        /\ writers' = IF o = "written" THEN writers \cup {"loop"} ELSE writers
        /\ rl_pc' = IF o = "ConnectionResetError" THEN "raised" ELSE "recv"
        /\ raised' = IF o = "ConnectionResetError" THEN o ELSE raised
    /\ UNCHANGED <<cache, socket, sequence, session_id, interval, hb_pc,
                   elapsed, dispatched, last, repeat, ref, buffer, heard,
                   lsvars, acked>>

\* the read loop's await of socket.send_str returns
LoopWritten ==
    /\ "loop" \in writers
    /\ writers' = writers \ {"loop"}
    /\ UNCHANGED <<cache, hbvars, socket, sequence, session_id, rl_pc, raised,
                   dispatched, last, repeat, ref, buffer, heard, lsvars,
                   acked>>

\* OP.HEARTBEAT: the gateway demands a heartbeat, the read loop sends one
RecvHeartbeat ==
    /\ HelloReceived
    /\ Receive(ControlFrame(OP_HEARTBEAT, NoneArg))
    /\ Len(sent) < MaxSent
    /\ sent' = Append(sent, HeartbeatFrame("demand"))
    /\ elapsed' = FALSE
    /\ acked' = FALSE
    /\ writers' = writers \cup {"loop"}
    /\ UNCHANGED <<sequence, interval, rl_pc, hb_pc, raised>>

\* OP.HEARTBEAT_ACK and OP.INVALID_SESSION have no branch in handle_events
RecvIgnored ==
    /\ HelloReceived
    /\ \E f \in {ControlFrame(OP_HEARTBEAT_ACK, NoneArg),
                 ControlFrame(OP_INVALID_SESSION, [resumable |-> FALSE])} :
            /\ Receive(f)
            /\ acked' = (acked \/ f.op = OP_HEARTBEAT_ACK)
    /\ UNCHANGED <<sequence, hbvars, rl_pc, raised, writers>>

\* OP.RECONNECT: handle_events raises ReconnectDiscordWebsocket; the handler
\* in Client.connect starts with _log.info(...), and core.py defines no
\* _log, so connect ends with NameError
RecvReconnect ==
    /\ HelloReceived
    /\ Receive(ControlFrame(OP_RECONNECT, NoneArg))
    /\ rl_pc' = "raised"
    /\ raised' = "NameError"
    /\ UNCHANGED <<sequence, hbvars, writers, acked>>

\* the data of the binary frames the gateway sends: a part of a compressed
\* message, the part that ends it, and a frame that is the suffix alone
ZLIB_SUFFIX == <<0, 0, 255, 255>>

BinaryFrames == {<<120, 156, 1>>, <<2>> \o ZLIB_SUFFIX, ZLIB_SUFFIX}

EndsWithSuffix(data) ==
    Len(data) >= 4 /\ SubSeq(data, Len(data) - 3, Len(data)) = ZLIB_SUFFIX

\* DiscordWebsocket.receive_json on a binary frame: what it returns, the
\* buffer after it, the exception it raises.  Data without the suffix makes
\* it return None, and nothing was added to the buffer; with the suffix it
\* evaluates inflator.decompress(self.buffer), and gateway.py has no name
\* inflator (the decompressor is self.inflator)
ReceiveBinary(buf, data) ==
    IF ~EndsWithSuffix(data)
    THEN [msg |-> NoneArg, buffer |-> buf, exc |-> ""]
    ELSE [msg |-> NoneArg, buffer |-> buf, exc |-> "NameError"]

\* one iteration of handle_events on a binary frame: msg['op'] on the None
\* that receive_json returned raises TypeError
RecvBinary ==
    /\ rl_pc = "recv"
    /\ socket = "open"
    /\ "loop" \notin writers
    /\ \E data \in BinaryFrames :
        LET r == ReceiveBinary(buffer, data)
        IN  /\ buffer' = r.buffer
            /\ raised' = IF r.exc # "" THEN r.exc ELSE "TypeError"
            /\ last' = [op |-> NoneInt, t |-> NoneStr,
                        d |-> [bytes |-> data], s |-> NoneInt]
    /\ rl_pc' = "raised"
    /\ repeat' = FALSE
    /\ dispatched' = <<>>
    /\ UNCHANGED <<cache, hbvars, socket, sequence, session_id, ref, heard,
                   lsvars, writers, acked>>

\* the gateway or the network closes the socket
SocketClose ==
    /\ socket = "open"
    /\ socket' = "closed"
    /\ UNCHANGED <<cache, hbvars, sequence, session_id, rl_pc, raised,
                   dispatched, last, repeat, ref, buffer, heard, lsvars,
                   writers, acked>>

\* receive_json on a socket that closed: socket.receive() returns a close
\* message whose data is not a str, and json.loads raises TypeError
RecvClosed ==
    /\ rl_pc = "recv"
    /\ socket = "closed"
    /\ "loop" \notin writers
    /\ rl_pc' = "raised"
    /\ raised' = "TypeError"
    /\ UNCHANGED <<cache, hbvars, socket, sequence, session_id, dispatched,
                   last, repeat, ref, buffer, heard, lsvars, writers, acked>>

\* handle_events: while not self.is_closed() finds the socket closed at the
\* top of the loop (it closed while the iteration before was running);
\* handle_events, start and connect return
HandleEventsReturn ==
    /\ rl_pc = "recv"
    /\ socket = "closed"
    /\ "loop" \notin writers
    /\ rl_pc' = "returned"
    /\ UNCHANGED <<cache, hbvars, socket, sequence, session_id, raised,
                   dispatched, last, repeat, ref, buffer, heard, lsvars,
                   writers, acked>>

\* HeartbeatHandler._handler: while not self.ws.is_closed()
HeartbeatCheck ==
    /\ hb_pc = "check"
    /\ hb_pc' = IF socket = "closed" THEN "done" ELSE "send"
    /\ UNCHANGED <<cache, socket, sequence, session_id, interval, rl_pc, sent,
                   elapsed, raised, dispatched, last, repeat, ref, buffer,
                   heard, lsvars, writers, acked>>

\* HeartbeatHandler._handler: asyncio.run(self.ws.send_json(heartbeat))
HeartbeatSend ==
    /\ hb_pc = "send"
    /\ Len(sent) < MaxSent
    /\ \E o \in SendOutcomes :
        /\ sent' = IF o = "written" THEN Append(sent, HeartbeatFrame("timer"))
                   ELSE sent
        /\ elapsed' = IF o = "written" THEN FALSE ELSE elapsed
        /\ acked' = IF o = "written" THEN FALSE ELSE acked
        /\ writers' = IF o = "written" THEN writers \cup {"thread"}
                      ELSE writers
        /\ hb_pc' = IF o = "ConnectionResetError" THEN "raised" ELSE "sleep"
    /\ UNCHANGED <<cache, socket, sequence, session_id, interval, rl_pc,
                   raised, dispatched, last, repeat, ref, buffer, heard,
                   lsvars>>

\* the heartbeat thread's asyncio.run(send_json(...)) returns
HeartbeatWritten ==
    /\ "thread" \in writers
    /\ writers' = writers \ {"thread"}
    /\ UNCHANGED <<cache, hbvars, socket, sequence, session_id, rl_pc, raised,
                   dispatched, last, repeat, ref, buffer, heard, lsvars,
                   acked>>

\* HeartbeatHandler._handler: time.sleep(self.interval) returns
HeartbeatSleep ==
    /\ hb_pc = "sleep"
    /\ "thread" \notin writers
    /\ hb_pc' = "check"
    /\ elapsed' = TRUE
    /\ UNCHANGED <<cache, socket, sequence, session_id, interval, rl_pc, sent,
                   raised, dispatched, last, repeat, ref, buffer, heard,
                   lsvars, writers, acked>>

\* ---- the events of the specification GatewaySpec: the control frames, the
\* heartbeat thread, and dispatch frames with any sequence number
GatewayDispatch ==
    /\ HelloReceived
    /\ \E n \in 1..MaxSeq :
        \E td \in {<<"READY", ReadyPayload>>,
                    <<UnknownEvent, UnknownPayload>>} :
            Dispatch([op |-> OP_DISPATCH, t |-> td[1], d |-> td[2], s |-> n])

\* a dispatch frame with the sequence number 0
GatewayDispatchZero ==
    /\ HelloReceived
    /\ Dispatch([op |-> OP_DISPATCH, t |-> UnknownEvent, d |-> UnknownPayload,
                 s |-> 0])

GatewayNext ==
    \/ Start
    \/ RecvHello
    \/ HelloStart
    \/ HelloIdentify
    \/ RecvHeartbeat
    \/ RecvIgnored
    \/ RecvReconnect
    \/ GatewayDispatch
    \/ GatewayDispatchZero
    \/ RecvBinary
    \/ SocketClose
    \/ RecvClosed
    \/ HandleEventsReturn
    \/ LoopWritten
    \/ HeartbeatCheck
    \/ HeartbeatSend
    \/ HeartbeatWritten
    \/ HeartbeatSleep

GatewaySpec == Init /\ [][GatewayNext]_vars

\* ---- the events of the specification ListenerSpec: listeners are added
\* and cleared, READY and GUILD_CREATE frames are dispatched to them, and
\* the event loop runs the tasks
\* the callbacks a program registers, all named on_ready: a coroutine
\* function without parameters (the "ready" notification has no argument),
\* one that raises while running, one with a parameter, a plain function
Callback(coroutine, params, run) ==
    [name |-> <<"on_", "ready">>, coroutine |-> coroutine, params |-> params,
     run |-> run]

Callbacks ==
    {Callback(TRUE, 0, ""), Callback(TRUE, 0, "Exception"),
     Callback(TRUE, 1, ""), Callback(FALSE, 0, "")}

\* the calls of add_listener: under its own name (name is None) the
\* callback that raises while running, the one with a parameter and the
\* plain function; the callback with a parameter as "on_guild_join"; and a
\* callback under the name "ready"
Registrations ==
    {<<cb, <<>>>> : cb \in Callbacks \ {Callback(TRUE, 0, "")}}
    \cup {<<Callback(TRUE, 1, ""), <<"on_", "guild_join">>>>,
          <<Callback(TRUE, 0, ""), <<"ready">>>>}

\* the event argument of clear_listeners: each event with and without "on_"
ClearedEvents ==
    {<<"on_", "ready">>, <<"ready">>, <<"on_", "guild_join">>,
     <<"guild_join">>}

\* a call of Client.add_listener by the program; its TypeError goes to the
\* caller
AddListenerCall ==
    \E reg \in Registrations :
        LET r == AddListener(listeners, reg[1], reg[2])
        IN  /\ \A k \in DOMAIN r.listeners :
                    Len(r.listeners[k]) <= MaxListeners
            /\ listeners' = r.listeners
            /\ called' = [op |-> "add_listener", listener |-> reg[1],
                          name |-> reg[2], exc |-> r.exc]
            /\ UNCHANGED <<cache, hbvars, socket, sequence, session_id, rl_pc,
                           raised, dispatched, last, repeat, ref, buffer,
                           heard, tasks, writers, acked>>

\* a call of Client.clear_listeners by the program
ClearListenersCall ==
    \E event \in ClearedEvents :
        /\ listeners' = ClearListeners(listeners, event)
        /\ called' = [op |-> "clear_listeners", event |-> event, exc |-> ""]
        /\ UNCHANGED <<cache, hbvars, socket, sequence, session_id, rl_pc,
                       raised, dispatched, last, repeat, ref, buffer, heard,
                       tasks, writers, acked>>

\* the event loop runs the oldest task to its end; an exception of the
\* coroutine is kept in the task and goes nowhere else
TaskRun ==
    /\ tasks # <<>>
    /\ tasks' = Tail(tasks)
    /\ called' = NoCall
    /\ UNCHANGED <<cache, hbvars, socket, sequence, session_id, rl_pc, raised,
                   dispatched, last, repeat, ref, buffer, heard, listeners,
                   writers, acked>>

\* GUILD_CREATE of one guild without members, joined or back from an outage
ListenerGuildCreate ==
    \E d \in {p \in GuildCreatePayloads({"a"}, {<<>>}, FALSE) :
                p.id = 1 /\ ~(Has(p, "unavailable") /\ p.unavailable)} :
        Dispatch(DispatchFrame("GUILD_CREATE", d))

ListenerNext ==
    \/ Start
    \/ AddListenerCall
    \/ ClearListenersCall
    \/ Ready
    \/ ListenerGuildCreate
    \/ TaskRun

ListenerSpec == Init /\ [][ListenerNext]_vars

\* ============================================================ properties
Unavailable(d) == Has(d, "unavailable") /\ d.unavailable

\* the frame just processed is a member-remove {guild_id: g, user: {id: u}}
\* for a guild that was cached when it arrived
MemberRemoveStep(g, u) ==
    /\ rl_pc = "recv"
    /\ last'.op = OP_DISPATCH
    /\ last'.t = "GUILD_MEMBER_REMOVE"
    /\ last'.d.guild_id = g
    /\ last'.d.user.id = u
    /\ g \in DOMAIN guilds

\* C1: after any sequence of guild create / update / delete events
\* processed by the read loop, State.guilds holds exactly the guilds of the
\* reference fold of those events, each with the fields of the last create
\* or update applied to it.
GuildsAreNetEffectOfEvents ==
    /\ DOMAIN guilds = DOMAIN ref
    /\ \A g \in DOMAIN guilds :
        [id |-> guilds[g].id, name |-> guilds[g].name] = ref[g]

\* a known guild was just renamed by an update while the other is not cached
C1Witness ==
    /\ last.t = "GUILD_UPDATE"
    /\ last.d.id \in DOMAIN guilds
    /\ guilds[last.d.id].name = "b"
    /\ Cardinality(DOMAIN guilds) = 1
    /\ rl_pc = "recv"

\* C2: processing the same available GUILD_CREATE payload twice in a row
\* leaves State.users, State.guilds (with the nested member and role
\* mappings) and State.user as they were after the first.
CreateTwiceIsCreateOnce ==
    [][(/\ rl_pc = "recv"
        /\ last'.t = "GUILD_CREATE"
        /\ repeat'
        /\ ~Unavailable(last'.d))
       => (users' = users /\ guilds' = guilds /\ user' = user)]_vars

\* the same create, listing two members, was just processed a second time
C2Witness ==
    /\ last.t = "GUILD_CREATE"
    /\ repeat
    /\ ~Unavailable(last.d)
    /\ Len(last.d.members) = 2
    /\ last.d.id \in DOMAIN guilds
    /\ Cardinality(DOMAIN guilds[last.d.id].members) = 2

\* C3: every member of every cached guild has its account id among the
\* keys of State.users.
MembersHaveAccounts ==
    \A g \in DOMAIN guilds : DOMAIN guilds[g].members \subseteq DOMAIN users

\* a member-add just gave a cached guild its second member
C3Witness ==
    /\ last.t = "GUILD_MEMBER_ADD"
    /\ last.d.guild_id \in DOMAIN guilds
    /\ Cardinality(DOMAIN guilds[last.d.guild_id].members) = 2

\* C4 (as claimed): every cached guild has exactly one role whose id is
\* the guild's id, whatever events were processed.
EveryGuildHasItsDefaultRole ==
    \A g \in DOMAIN guilds :
        Cardinality({i \in 1..Len(guilds[g].roles) :
                        guilds[g].roles[i].id = g}) = 1

\* C5 (as claimed): for every cached guild that has its default role,
\* Guild.roles returns every role exactly once with the default role last.
RoleListingEndsWithDefault ==
    \A g \in DOMAIN guilds :
        HasRole(guilds[g], g) =>
            LET r == GuildRoles(guilds[g])
                n == Len(guilds[g].roles)
            IN  /\ r.exc = ""
                /\ Len(r.value) = n
                /\ \A i \in 1..n :
                    Cardinality({j \in 1..n :
                                    r.value[j] = guilds[g].roles[i]}) = 1
                /\ r.value[n].id = g

\* C6 (as claimed): a member-remove for a cached guild g that has member u
\* removes exactly u from g's members, leaves everything else untouched and
\* dispatches one member_remove notification whose user has id u.
MemberRemoveRemovesAndNotifies ==
    [][\A g \in GuildIds, u \in UserIds :
        (MemberRemoveStep(g, u) /\ u \in DOMAIN guilds[g].members)
        => /\ guilds' = [guilds EXCEPT ![g].members = Pop(@, u)]
           /\ users' = users
           /\ Len(dispatched') = 1
           /\ dispatched'[1].name = "member_remove"
           /\ dispatched'[1].args[1].id = u]_vars

\* C7: a member-remove for a cached guild that does not have the named
\* member changes nothing in the cache and dispatches nothing.
AbsentMemberRemoveIsNoOp ==
    [][\A g \in GuildIds, u \in UserIds :
        (MemberRemoveStep(g, u) /\ u \notin DOMAIN guilds[g].members)
        => (users' = users /\ guilds' = guilds /\ user' = user
            /\ dispatched' = <<>>)]_vars

\* a member-remove was just processed for a cached guild, naming an account
\* that is cached but is not a member of that guild
C7Witness ==
    /\ last.t = "GUILD_MEMBER_REMOVE"
    /\ last.d.guild_id \in DOMAIN guilds
    /\ last.d.user.id \notin DOMAIN guilds[last.d.guild_id].members
    /\ last.d.user.id \in DOMAIN users

\* C8: a dispatch frame whose event has no handler leaves the cache as it
\* was, dispatches nothing, and the read loop goes on to the next frame.
UnknownEventIsIgnored ==
    [][(/\ rl_pc = "recv"
        /\ last'.op = OP_DISPATCH
        /\ last'.t \notin HandledEvents)
       => (/\ users' = users /\ guilds' = guilds /\ user' = user
           /\ dispatched' = <<>>
           /\ rl_pc' = "recv" /\ raised' = "")]_vars

\* an unknown event was just processed with a guild and an account cached
C8Witness ==
    /\ last.op = OP_DISPATCH
    /\ last.t = UnknownEvent
    /\ guilds # EmptyDict
    /\ users # EmptyDict
    /\ rl_pc = "recv"

\* C9 (as claimed): of the heartbeats not demanded by the gateway, only the
\* one the read loop sends on Hello goes out without a heartbeat interval
\* having passed since the heartbeat before it.
OnlyHelloHeartbeatIsImmediate ==
    \A i \in 1..Len(sent) :
        (sent[i].op = OP_HEARTBEAT /\ sent[i].by = "timer") => sent[i].waited

\* C10: an Identify frame is written only after the heartbeat the read loop
\* sends on Hello; while a Hello received with no sequence known is being
\* handled, that heartbeat is in the log with d = None and no Identify
\* has followed it yet; and the step that ends the handling writes the
\* Identify.
IdentifyFollowsImmediateHeartbeat ==
    /\ [](\A i \in 1..Len(sent) :
            sent[i].op = OP_IDENTIFY =>
                \E j \in 1..(i - 1) :
                    sent[j].op = OP_HEARTBEAT /\ sent[j].by = "hello")
    /\ []((rl_pc \in {"hello_start", "hello_identify"} /\ sequence = NoneInt)
            => \E j \in 1..Len(sent) :
                /\ sent[j].op = OP_HEARTBEAT
                /\ sent[j].by = "hello"
                /\ sent[j].d = NoneInt
                /\ \A k \in (j + 1)..Len(sent) : sent[k].op # OP_IDENTIFY)
    /\ [][(rl_pc = "hello_identify" /\ rl_pc' = "recv" /\ socket = "open")
            => (/\ sent' = Append(sent, IdentifyFrame)
                /\ \E j \in 1..Len(sent) :
                    sent[j].op = OP_HEARTBEAT /\ sent[j].by = "hello")]_vars

\* the first Hello of a connection was answered: heartbeat with d = None
\* first, Identify after it
C10Witness ==
    /\ last = HelloFrame
    /\ rl_pc = "recv"
    /\ sequence = NoneInt
    /\ Len(sent) >= 2
    /\ sent[1].op = OP_HEARTBEAT /\ sent[1].by = "hello" /\ sent[1].d = NoneInt
    /\ \E i \in 2..Len(sent) : sent[i].op = OP_IDENTIFY

\* the client holds what a resume needs
Resumable == session_id # NoneStr /\ sequence # NoneInt

\* C11 (as claimed): the heartbeat timer sends a heartbeat at a tick only
\* if a HeartbeatAck arrived since the heartbeat before it was sent; at a
\* tick without one no heartbeat is sent.
TimerHeartbeatNeedsAck ==
    \A i \in 1..Len(sent) :
        (sent[i].op = OP_HEARTBEAT /\ sent[i].by = "timer" /\ sent[i].waited)
            => sent[i].acked

\* C12 (as claimed): a client that was told to reconnect while it holds a
\* session_id and a sequence has sent a Resume frame, and no Identify frame
\* after it, whenever its read loop is no longer reading the old socket.
ReconnectIsAnsweredWithResume ==
    (last.op = OP_RECONNECT /\ Resumable /\ rl_pc # "recv")
        => \E i \in 1..Len(sent) :
            /\ sent[i].op = OP_RESUME
            /\ \A j \in (i + 1)..Len(sent) : sent[j].op # OP_IDENTIFY

\* C13 (as claimed): once a Reconnect frame has taken the read loop off the
\* old socket of a resumable session, that socket is closed, Client.connect
\* has not ended with an exception, and a Resume frame that was sent carries
\* the token with the session_id and sequence recorded when the Reconnect
\* arrived.
ReconnectClosesSocketAndResumes ==
    (last.op = OP_RECONNECT /\ Resumable /\ rl_pc # "recv")
        => /\ socket = "closed"
           /\ raised = ""
           /\ \A i \in 1..Len(sent) :
                sent[i].op = OP_RESUME
                    => sent[i].d = ResumeFrame(session_id, sequence).d

\* C14 (as claimed): from the moment an InvalidSession frame has been
\* handled until the next frame is read, State.users and State.guilds are
\* empty, so they are empty when the next Identify is sent.
InvalidSessionClearsStore ==
    last.op = OP_INVALID_SESSION
        => (users = EmptyDict /\ guilds = EmptyDict)

\* C15 (as claimed): while session_id stays the same, no step lowers
\* DiscordWebsocket.sequence, whatever frames arrive.
SequenceNeverDecreases ==
    [][(session_id' = session_id /\ sequence # NoneInt)
        => sequence' >= sequence]_vars

\* C16 (as claimed): a read loop waiting on a socket that closed does not
\* end Client.connect, neither by an exception nor by returning.
ClosedSocketDoesNotStopClient ==
    [][(rl_pc = "recv" /\ socket = "closed")
        => rl_pc' \notin {"raised", "returned"}]_vars

\* C17 (as claimed): the iteration of the read loop on a dispatch frame,
\* whatever its payload, ends with the loop reading the next frame and no
\* exception raised.
DispatchFrameNeverStopsReadLoop ==
    [][(rl_pc = "recv" /\ socket = "open" /\ last'.op = OP_DISPATCH)
        => (rl_pc' = "recv" /\ raised' = "")]_vars

\* the step is an iteration of the read loop on a dispatch frame
DispatchStep ==
    /\ rl_pc = "recv"
    /\ socket = "open"
    /\ last'.op = OP_DISPATCH
    /\ Len(tasks') >= Len(tasks)
    /\ UNCHANGED <<socket, hbvars, listeners, writers, acked>>

\* C18 (as claimed): when a handler dispatches a notification, every
\* listener registered for it whose call returns a coroutine gets a task,
\* also when another listener of that notification raises on its call, and
\* the read loop goes on without an exception.
ListenerFailureIsIsolated ==
    [][DispatchStep =>
        LET out == ProcessEvent(store, last'.t, last'.d).out
        IN  /\ raised' = ""
            /\ rl_pc' = "recv"
            /\ \A k \in 1..Len(out) :
                Has(listeners, <<out[k].name>>) =>
                    \A l \in 1..Len(listeners[<<out[k].name>>]) :
                        LET cb == listeners[<<out[k].name>>][l]
                        IN  cb.params = Len(out[k].args) =>
                                \E t \in (Len(tasks) + 1)..Len(tasks') :
                                    /\ tasks'[t].coro = cb
                                    /\ tasks'[t].args = out[k].args]_vars

\* C19 (as claimed): the heartbeat thread calls send_json only while the
\* socket is open, and never ends with an exception of a send.
NoHeartbeatOnClosedSocket ==
    [][(hb_pc = "send" /\ hb_pc' # "send")
        => (socket = "open" /\ hb_pc' # "raised")]_vars

\* C20 (as claimed): at most one of the read loop and the heartbeat thread
\* is inside socket.send_str at any time.
AtMostOneWriter == Cardinality(writers) <= 1

\* one task per listener registered under the name of each dispatch call of
\* out, in the order of the calls and of the registrations
RECURSIVE OneTaskEach(_, _)
OneTaskEach(ls, out) ==
    IF out = <<>> THEN <<>>
    ELSE LET n == Head(out)
             l == IF Has(ls, <<n.name>>) THEN ls[<<n.name>>] ELSE <<>>
         IN  [i \in 1..Len(l) |-> [coro |-> l[i], args |-> n.args]]
             \o OneTaskEach(ls, Tail(out))

\* C21 (as claimed): every call of Client.dispatch made for a frame creates
\* exactly one task for each listener registered under the name of its
\* event and none for the listeners of other names, and it runs none of
\* them: the tasks are added to the ones that wait.
DispatchSchedulesEveryListenerOnce ==
    [][DispatchStep
        => tasks' = tasks \o OneTaskEach(listeners, dispatched')]_vars

\* C22: a call of add_listener with a callback that is no coroutine
\* function, or under an effective name (the name given, else the
\* callback's own) that does not start with "on_", raises TypeError and
\* leaves Client.listeners as it was; any other call raises nothing and
\* appends the callback to the list under the name without "on_", which
\* keeps the callbacks it had, and leaves the lists of other names alone.
AddListenerChecksThenAppends ==
    [][called'.op = "add_listener" =>
        LET cb == called'.listener
            n == IF called'.name = <<>> THEN cb.name ELSE called'.name
            key == Tail(n)
        IN  IF ~cb.coroutine \/ n = <<>> \/ Head(n) # "on_"
            THEN called'.exc = "TypeError" /\ listeners' = listeners
            ELSE /\ called'.exc = ""
                 /\ DOMAIN listeners' = DOMAIN listeners \cup {key}
                 /\ listeners'[key] =
                        (IF key \in DOMAIN listeners THEN listeners[key]
                         ELSE <<>>) \o <<cb>>
                 /\ \A k \in DOMAIN listeners \ {key} :
                        listeners'[k] = listeners[k]]_vars

\* a second callback was just added to the listeners of "ready", behind the
\* one registered before it
C22Witness ==
    /\ called.op = "add_listener"
    /\ called.exc = ""
    /\ <<"ready">> \in DOMAIN listeners
    /\ Len(listeners[<<"ready">>]) = 2
    /\ listeners[<<"ready">>][2] = called.listener
    /\ listeners[<<"ready">>][1] # called.listener

\* the names of the notifications the listeners of ListenerSpec are for
ListenerEvents == {<<"ready">>, <<"guild_join">>}

UnavailableCreateIsIgnored ==
    [][(/\ rl_pc = "recv"
        /\ last'.op = OP_DISPATCH
        /\ last'.t = "GUILD_CREATE"
        /\ Unavailable(last'.d))
       => (/\ guilds' = guilds /\ users' = users /\ user' = user
           /\ dispatched' = <<>>
           /\ tasks' = tasks)]_vars

\* a create marked unavailable was just processed for a guild that is
\* cached with a member
C24Witness ==
    /\ last.t = "GUILD_CREATE"
    /\ Unavailable(last.d)
    /\ last.d.id \in DOMAIN guilds
    /\ guilds[last.d.id].members # EmptyDict
    /\ ~guilds[last.d.id].unavailable
    /\ rl_pc = "recv"

\* the step is an iteration of the read loop on a dispatch frame of event t
EventStep(t) ==
    /\ rl_pc = "recv"
    /\ last'.op = OP_DISPATCH
    /\ last'.t = t

\* C25 (as claimed): every GUILD_CREATE that is not marked unavailable
\* dispatches guild_join; and when such a create is the first frame the
\* client processes, so that no outage can have removed or marked its
\* guild before, it does not dispatch guild_available.
AvailableOnlyAfterOutage ==
    [][(EventStep("GUILD_CREATE") /\ ~Unavailable(last'.d))
        => /\ \E i \in 1..Len(dispatched') :
                dispatched'[i].name = "guild_join"
           /\ last = NoFrame =>
                \A i \in 1..Len(dispatched') :
                    dispatched'[i].name # "guild_available"]_vars

\* C26: a GUILD_UPDATE for a cached guild dispatches one guild_update whose
\* first argument has the field values the guild had before the frame and
\* whose second argument is the cached guild with the values of the
\* payload; a GUILD_UPDATE for a guild that is not cached changes nothing
\* and dispatches nothing.
UpdateDispatchesBeforeAndAfter ==
    [][EventStep("GUILD_UPDATE") =>
        LET g == last'.d.id
        IN  IF g \in DOMAIN guilds
            THEN /\ Len(dispatched') = 1
                 /\ dispatched'[1].name = "guild_update"
                 /\ dispatched'[1].args =
                        <<GuildArg(guilds[g]), GuildArg(guilds'[g])>>
                 /\ guilds'[g].name = last'.d.name
            ELSE /\ guilds' = guilds /\ users' = users /\ user' = user
                 /\ dispatched' = <<>>]_vars

\* an update just renamed a cached guild: "before" has the old name,
\* "after" the new one
C26Witness ==
    /\ last.t = "GUILD_UPDATE"
    /\ Len(dispatched) = 1
    /\ dispatched[1].name = "guild_update"
    /\ dispatched[1].args[1].name = "a"
    /\ dispatched[1].args[2].name = "b"
    /\ guilds[last.d.id].name = "b"

\* C27 (as claimed): a GUILD_UPDATE whose payload has no key members, for a
\* cached guild, leaves the members of that guild as they were.
UpdateKeepsMembers ==
    [][(/\ EventStep("GUILD_UPDATE")
        /\ ~Has(last'.d, "members")
        /\ last'.d.id \in DOMAIN guilds)
       => /\ last'.d.id \in DOMAIN guilds'
          /\ guilds'[last'.d.id].members = guilds[last'.d.id].members]_vars

\* C28 (as claimed): a GUILD_DELETE leaves the guild out of State.guilds;
\* it dispatches one guild_leave with the removed guild when the payload
\* is not marked unavailable and the guild was cached, and nothing
\* otherwise.
DeleteNotifiesOnlyForCachedGuild ==
    [][EventStep("GUILD_DELETE") =>
        LET g == last'.d.id
        IN  /\ g \notin DOMAIN guilds'
            /\ dispatched' =
                IF ~Unavailable(last'.d) /\ g \in DOMAIN guilds
                THEN <<Notify("guild_leave", <<GuildArg(guilds[g])>>)>>
                ELSE <<>>]_vars

\* the events that name their guild by the key guild_id
MemberAndRoleEvents ==
    {"GUILD_MEMBER_ADD", "GUILD_MEMBER_UPDATE", "GUILD_MEMBER_REMOVE",
     "GUILD_ROLE_CREATE", "GUILD_ROLE_UPDATE", "GUILD_ROLE_DELETE"}

\* C29: a member-add, member-update, member-remove, role-create,
\* role-update or role-delete whose guild_id is not a key of State.guilds
\* leaves State.guilds, State.users and State.user as they were and
\* dispatches nothing.
UnknownGuildEventIsDropped ==
    [][\A t \in MemberAndRoleEvents :
        (EventStep(t) /\ last'.d.guild_id \notin DOMAIN guilds)
        => (/\ guilds' = guilds /\ users' = users /\ user' = user
            /\ dispatched' = <<>>)]_vars

\* a member-add for a guild that is not cached was just processed while
\* another guild is cached, and the account it names is not cached
C29Witness ==
    /\ last.t = "GUILD_MEMBER_ADD"
    /\ last.d.guild_id \notin DOMAIN guilds
    /\ last.d.user.id \notin DOMAIN users
    /\ guilds # EmptyDict
    /\ rl_pc = "recv"

\* C30: a GUILD_ROLE_DELETE for a cached guild that has the named role
\* removes that role, keeps the other roles and dispatches one role_delete
\* with the removed role; for a role id the guild does not have it changes
\* nothing and dispatches nothing.
RoleDeleteNotifiesOnlyIfPresent ==
    [][(EventStep("GUILD_ROLE_DELETE") /\ last'.d.guild_id \in DOMAIN guilds)
        => LET g == last'.d.guild_id
               rid == last'.d.role_id
               had == {i \in 1..Len(guilds[g].roles) :
                            guilds[g].roles[i].id = rid}
           IN  IF had # {}
               THEN /\ guilds' = [guilds EXCEPT ![g].roles =
                            SelectSeq(@, LAMBDA r : r.id # rid)]
                    /\ users' = users /\ user' = user
                    /\ Len(dispatched') = 1
                    /\ dispatched'[1].name = "role_delete"
                    /\ \E i \in had :
                            dispatched'[1].args = <<guilds[g].roles[i]>>
               ELSE /\ guilds' = guilds /\ users' = users /\ user' = user
                    /\ dispatched' = <<>>]_vars

\* a role-delete just removed the extra role of a cached guild, which
\* still has its default role
C30Witness ==
    /\ last.t = "GUILD_ROLE_DELETE"
    /\ last.d.role_id = ExtraRoleId
    /\ last.d.guild_id \in DOMAIN guilds
    /\ Len(dispatched) = 1
    /\ dispatched[1].name = "role_delete"
    /\ dispatched[1].args[1].id = ExtraRoleId
    /\ ~HasRole(guilds[last.d.guild_id], ExtraRoleId)
    /\ HasRole(guilds[last.d.guild_id], last.d.guild_id)

\* C31 (as claimed): a GUILD_ROLE_UPDATE for a cached guild that does not
\* have the role of the payload does not raise, leaves the role in the
\* guild's roles with the fields of the payload, and dispatches one
\* role_update whose second argument is that role.
RoleUpdateCreatesMissingRole ==
    [][(/\ EventStep("GUILD_ROLE_UPDATE")
        /\ last'.d.guild_id \in DOMAIN guilds
        /\ ~HasRole(guilds[last'.d.guild_id], last'.d.role.id))
       => /\ raised' = ""
          /\ rl_pc' = "recv"
          /\ last'.d.guild_id \in DOMAIN guilds'
          /\ HasRole(guilds'[last'.d.guild_id], last'.d.role.id)
          /\ GetRole(guilds'[last'.d.guild_id], last'.d.role.id)
                = RoleFromData(last'.d.role)
          /\ Len(dispatched') = 1
          /\ dispatched'[1].name = "role_update"
          /\ dispatched'[1].args[2] = RoleFromData(last'.d.role)]_vars

\* C32: a GUILD_MEMBER_ADD for a cached guild puts the member of the
\* payload under its account id in the members of that guild, in the place
\* of a member cached under that id; it adds the account to State.users
\* only if no account with that id is cached, and leaves a cached account
\* as it was; and it dispatches exactly one member_join.
MemberAddInsertsAccountIfAbsent ==
    [][(EventStep("GUILD_MEMBER_ADD") /\ last'.d.guild_id \in DOMAIN guilds)
        => LET g == last'.d.guild_id
               u == last'.d.user.id
               m == [user |-> [id |-> u, username |-> last'.d.user.username,
                               discriminator |->
                                    last'.d.user.discriminator]]
           IN  /\ DOMAIN guilds' = DOMAIN guilds
               /\ \A h \in DOMAIN guilds \ {g} : guilds'[h] = guilds[h]
               /\ DOMAIN guilds'[g].members
                    = DOMAIN guilds[g].members \cup {u}
               /\ guilds'[g].members[u] = m
               /\ \A v \in DOMAIN guilds[g].members \ {u} :
                    guilds'[g].members[v] = guilds[g].members[v]
               /\ DOMAIN users' = DOMAIN users \cup {u}
               /\ \A v \in DOMAIN users : users'[v] = users[v]
               /\ u \notin DOMAIN users => users'[u] = m.user
               /\ Len(dispatched') = 1
               /\ dispatched'[1] = Notify("member_join", <<m>>)]_vars

\* a member-add just replaced a member by one whose account has another
\* username, and the account cached under that id kept the old username
C32Witness ==
    /\ last.t = "GUILD_MEMBER_ADD"
    /\ last.d.guild_id \in DOMAIN guilds
    /\ last.d.user.username = "b"
    /\ guilds[last.d.guild_id].members[last.d.user.id].user.username = "b"
    /\ users[last.d.user.id].username = "a"
    /\ Len(dispatched) = 1

\* C33: when a READY frame has been processed, session_id is the one of
\* the frame, State.user is the account of the payload, the id of that
\* account is a key of State.users, and every guild and every other
\* account cached before is cached as it was.
ReadySeedsSessionAndAccount ==
    [][(EventStep("READY") /\ Has(last'.d, "session_id"))
        => /\ session_id' = last'.d.session_id
           /\ user' = [id |-> last'.d.user.id,
                       username |-> last'.d.user.username,
                       discriminator |-> last'.d.user.discriminator]
           /\ last'.d.user.id \in DOMAIN users'
           /\ DOMAIN users \subseteq DOMAIN users'
           /\ \A v \in DOMAIN users \ {last'.d.user.id} :
                users'[v] = users[v]
           /\ guilds' = guilds]_vars

\* a READY was just processed with a guild and another account cached
C33Witness ==
    /\ last.t = "READY"
    /\ session_id = "s1"
    /\ user # NoneArg
    /\ guilds # EmptyDict
    /\ \E v \in DOMAIN users : v # user.id
    /\ rl_pc = "recv"

\* C34 (as claimed): processing a READY frame dispatches no "ready"
\* notification.
ReadyIsNotDispatchedByReady ==
    [][EventStep("READY")
        => \A i \in 1..Len(dispatched') : dispatched'[i].name # "ready"]_vars

\* the step is an iteration of the read loop on a binary frame
BinaryStep ==
    /\ rl_pc = "recv"
    /\ last'.op = NoneInt
    /\ Has(last'.d, "bytes")

\* C35 (as claimed): a binary frame without the 4-byte suffix is added to
\* the buffer, gives no message, and the read loop goes on reading; a
\* binary frame with the suffix is decoded without an exception and leaves
\* the buffer empty.
PartialFramesAccumulate ==
    [][BinaryStep =>
        IF ~EndsWithSuffix(last'.d.bytes)
        THEN /\ buffer' = buffer \o last'.d.bytes
             /\ dispatched' = <<>>
             /\ rl_pc' = "recv" /\ raised' = ""
        ELSE /\ buffer' = <<>>
             /\ raised' = ""]_vars

\* C36 (as claimed): every heartbeat frame written carries as d the
\* sequence number of the last frame received that had one, 0 included,
\* and None when no frame with a sequence number was received.
HeartbeatCarriesLastSequence ==
    [][(/\ Len(sent') = Len(sent) + 1
        /\ sent'[Len(sent')].op = OP_HEARTBEAT)
       => sent'[Len(sent')].d = heard]_vars

\* C37 (as claimed): every Hello received sets the heartbeat interval to
\* the one it carries and starts the heartbeat thread without an error:
\* the step self.heartbeat.start() leaves the thread running and the read
\* loop on its way to Identify.
EveryHelloStartsTheHeartbeat ==
    [][(rl_pc = "hello_start" /\ rl_pc' # "hello_start")
        => /\ interval = last.d.heartbeat_interval
           /\ raised' = ""
           /\ rl_pc' = "hello_identify"
           /\ hb_pc' \in {"check", "send", "sleep"}]_vars

\* C38 (as claimed): once the socket is closed, the read loop does not end
\* with an exception, and State.user, State.users and State.guilds stay
\* as they are.
ClosedSocketEndsReadLoopQuietly ==
    [][socket = "closed"
        => /\ rl_pc # "raised" => rl_pc' # "raised"
           /\ raised' = raised
           /\ users' = users /\ guilds' = guilds /\ user' = user]_vars

====
